---- MODULE Spec2Model ----
(***************************************************************************)
(* Model of the list views of the tourist-safety dashboard: DigitalIds     *)
(* (src/src/pages/DigitalIds.tsx), Alerts (src/src/pages/Alerts.tsx) and   *)
(* EFir (src/unnamed/part_002).  Each view is a React function component:  *)
(* its state is the useState cells, and every state change re-runs the     *)
(* component body, which recomputes the filtered rows and the statistics.  *)
(* One page component is mounted at a time; `mounted` names it, and        *)
(* `phase` tells whether its last render was its mount or an update.       *)
(* `pending` holds the new-case submissions whose 1.5 s timer has not yet  *)
(* fired, `toasts` the toasts emitted so far, `markers` the circle markers *)
(* on the Leaflet map of the Alerts page, `sidebar` the last render of the *)
(* navigation sidebar.                                                     *)
(*                                                                         *)
(* Text is a sequence of one-character strings, so that toLowerCase and    *)
(* includes are computed character by character.  Enumerated fields and    *)
(* filter values are TLA+ strings compared with =, as === compares them.   *)
(* A field that is absent on a record is a key missing from its DOMAIN.    *)
(***************************************************************************)
EXTENDS Integers, Sequences, FiniteSets, TLC

VARIABLES mounted, mockTouristData, mockAlerts, mockEFIRCases,
          digitalIds, alerts, efir, phase, pending, toasts, markers, sidebar

vars == <<mounted, mockTouristData, mockAlerts, mockEFIRCases,
          digitalIds, alerts, efir, phase, pending, toasts, markers, sidebar>>

\* Longest record collection drawn for the views' filters in SpecAny/SpecUntyped.
MaxLen == 2

\* Most submissions of the new-case form in one session.
MaxSubmits == 2

\* Longest tail a drawn location path has after its stem.
MaxTail == 2

----------------------------------------------------------------------------
(* JavaScript string and array primitives used by the views.               *)

UpperCaseLetters ==
  <<"A","B","C","D","E","F","G","H","I","J","K","L","M",
    "N","O","P","Q","R","S","T","U","V","W","X","Y","Z">>

LowerCaseLetters ==
  <<"a","b","c","d","e","f","g","h","i","j","k","l","m",
    "n","o","p","q","r","s","t","u","v","w","x","y","z">>

\* The lower-case letter of each upper-case letter.
LowerCaseOf ==
  [c \in {UpperCaseLetters[i] : i \in DOMAIN UpperCaseLetters} |->
     LowerCaseLetters[CHOOSE i \in DOMAIN UpperCaseLetters : UpperCaseLetters[i] = c]]

\* String.prototype.toLowerCase, one character: other characters are kept.
toLowerCaseChar(c) == IF c \in DOMAIN LowerCaseOf THEN LowerCaseOf[c] ELSE c

\* String.prototype.toLowerCase
\* Faulty variant: the text is left as typed.
toLowerCase_asTyped(s) == s

toLowerCase(s) == [i \in 1..Len(s) |-> toLowerCaseChar(s[i])]

\* String.prototype.includes: t occurs in s at some offset; "" occurs in every s.
includes(s, t) ==
  \E k \in 0..(Len(s) - Len(t)) : \A j \in 1..Len(t) : s[k + j] = t[j]

\* obj.field is undefined when the key is absent.
Has(record, field) == field \in DOMAIN record

\* record.field === value, value a string: false when the field is absent.
StrictEq(record, field, value) == Has(record, field) /\ record[field] = value

\* The value undefined.
Undefined == [undefined |-> TRUE]

\* The property names every object literal inherits from Object.prototype.
ObjectPrototypeKeys ==
  {"constructor", "__proto__", "hasOwnProperty", "isPrototypeOf",
   "propertyIsEnumerable", "toLocaleString", "toString", "valueOf",
   "__defineGetter__", "__defineSetter__", "__lookupGetter__", "__lookupSetter__"}

\* object[key] for an object literal: its own property, else the member it
\* inherits from Object.prototype (a function or object, hence truthy), else
\* undefined.
GetProperty(object, key) ==
  IF key \in DOMAIN object THEN object[key]
  ELSE IF key \in ObjectPrototypeKeys THEN [inherited |-> key]
  ELSE Undefined

\* The property key an (optional) field value is converted to.
PropertyKey(record, field) == IF Has(record, field) THEN record[field] ELSE "undefined"

InSeq(x, s) == \E i \in DOMAIN s : s[i] = x

----------------------------------------------------------------------------
(* DigitalIds.tsx                                                          *)

MockTouristData ==
  << [id |-> "1", name |-> <<"J","o","h","n"," ","S","m","i","t","h">>,
      digitalId |-> <<"T","I","D","-","2","0","2","4","-","0","0","1">>,
      nationality |-> "USA", status |-> "active",
      location |-> <<"R","e","d"," ","F","o","r","t"," ","A","r","e","a">>],
     [id |-> "2", name |-> <<"M","a","r","i","e"," ","D","u","b","o","i","s">>,
      digitalId |-> <<"T","I","D","-","2","0","2","4","-","0","0","2">>,
      nationality |-> "France", status |-> "active",
      location |-> <<"L","o","t","u","s"," ","T","e","m","p","l","e">>],
     [id |-> "3", name |-> <<"H","i","r","o","s","h","i"," ","T","a","n","a","k","a">>,
      digitalId |-> <<"T","I","D","-","2","0","2","4","-","0","0","3">>,
      nationality |-> "Japan", status |-> "alert",
      location |-> <<"C","h","a","n","d","n","i"," ","C","h","o","w","k">>],
     [id |-> "4", name |-> <<"E","m","m","a"," ","W","i","l","s","o","n">>,
      digitalId |-> <<"T","I","D","-","2","0","2","4","-","0","0","4">>,
      nationality |-> "UK", status |-> "inactive",
      location |-> <<"L","o","d","h","i"," ","G","a","r","d","e","n","s">>] >>

\* The values the status <Select> offers.
DigitalIds_StatusItems == {"all", "active", "inactive", "alert"}

\* The values the nationality <Select> offers.
DigitalIds_NationalityItems == {"all", "USA", "France", "Japan", "UK"}

\* Texts typed into the search <Input>.
SearchTerms ==
  { <<>>, <<"m","a","r">>, <<"M","A","R">>, <<"0","0","2">> }

\* Faulty variant: the search term is not lower-cased.
DigitalIds_matchesSearch_caseSensitive(record, searchTerm) ==
  \/ includes(toLowerCase(record.name), searchTerm)
  \/ includes(toLowerCase(record.digitalId), searchTerm)

DigitalIds_matchesSearch(record, searchTerm) ==
  \/ includes(toLowerCase(record.name), toLowerCase(searchTerm))
  \/ includes(toLowerCase(record.digitalId), toLowerCase(searchTerm))

DigitalIds_matchesStatus(record, statusFilter) ==
  statusFilter = "all" \/ StrictEq(record, "status", statusFilter)

\* Faulty variant: the sentinel "all" is compared like any other value.
DigitalIds_matchesNationality_noSentinel(record, nationalityFilter) ==
  StrictEq(record, "nationality", nationalityFilter)

DigitalIds_matchesNationality(record, nationalityFilter) ==
  nationalityFilter = "all" \/ StrictEq(record, "nationality", nationalityFilter)

\* The filter callback raises a TypeError when it calls toLowerCase on an
\* undefined name, or (name not matching, so || evaluates its right side) on
\* an undefined digitalId.
DigitalIds_callbackThrows(record, searchTerm) ==
  \/ ~Has(record, "name")
  \/ /\ ~includes(toLowerCase(record.name), toLowerCase(searchTerm))
     /\ ~Has(record, "digitalId")

\* Faulty variant: the last && written as ||, which binds weaker than &&.
DigitalIds_filteredData_or(data, searchTerm, statusFilter, nationalityFilter) ==
  SelectSeq(data, LAMBDA record :
    \/ /\ DigitalIds_matchesSearch(record, searchTerm)
       /\ DigitalIds_matchesStatus(record, statusFilter)
    \/ DigitalIds_matchesNationality(record, nationalityFilter))

DigitalIds_filteredData(data, searchTerm, statusFilter, nationalityFilter) ==
  SelectSeq(data, LAMBDA record :
    /\ DigitalIds_matchesSearch(record, searchTerm)
    /\ DigitalIds_matchesStatus(record, statusFilter)
    /\ DigitalIds_matchesNationality(record, nationalityFilter))

\* new Set(data.map(r => r.nationality)): undefined is one more member.
DigitalIds_nationalitySet(data) ==
  { IF Has(data[i], "nationality") THEN <<"string", data[i].nationality>>
                                   ELSE <<"undefined">> : i \in DOMAIN data }

\* The tiles are counted over the collection; the filtered rows, though in
\* scope, are not read.
DigitalIds_stats(data, filtered) ==
  << [label |-> "Total Records", value |-> ToString(Len(data))],
     [label |-> "Active Tourists",
      value |-> ToString(Len(SelectSeq(data, LAMBDA r : StrictEq(r, "status", "active"))))],
     [label |-> "Alert Status",
      value |-> ToString(Len(SelectSeq(data, LAMBDA r : StrictEq(r, "status", "alert"))))],
     [label |-> "Nationalities",
      value |-> ToString(Cardinality(DigitalIds_nationalitySet(data)))] >>

\* A table row raises when it upper-cases an undefined status.
DigitalIds_rowThrows(record) == ~Has(record, "status")

\* variants[status] || variants.active
DigitalIds_getStatusBadge(status) ==
  LET variants ==
        [active |-> [variant |-> "default", className |-> "bg-success text-success-foreground"],
         inactive |-> [variant |-> "secondary", className |-> ""],
         alert |-> [variant |-> "destructive", className |-> ""]]
      found == GetProperty(variants, status)
  IN IF found # Undefined THEN found ELSE variants.active

\* One run of the component body: the rows and the statistics it displays,
\* or nothing when the body raised ("filter": in the filter callback, "row":
\* while building a table row).
DigitalIds_render(data, searchTerm, statusFilter, nationalityFilter) ==
  LET base == [searchTerm |-> searchTerm, statusFilter |-> statusFilter,
               nationalityFilter |-> nationalityFilter]
  IN
  IF \E i \in DOMAIN data : DigitalIds_callbackThrows(data[i], searchTerm)
  THEN base @@ [filteredData |-> <<>>, stats |-> <<>>, badges |-> <<>>, raised |-> "filter"]
  ELSE
    LET filtered == DigitalIds_filteredData(data, searchTerm, statusFilter, nationalityFilter)
    IN IF \E i \in DOMAIN filtered : DigitalIds_rowThrows(filtered[i])
       THEN base @@ [filteredData |-> <<>>, stats |-> <<>>, badges |-> <<>>,
                     raised |-> "row"]
       ELSE base @@ [filteredData |-> filtered,
                     stats |-> DigitalIds_stats(data, filtered),
                     badges |-> [i \in DOMAIN filtered |->
                                   DigitalIds_getStatusBadge(PropertyKey(filtered[i], "status"))],
                     raised |-> "none"]

DigitalIds_setSearchTerm(value) ==
  /\ mounted = "DigitalIds"
  /\ digitalIds.raised = "none"
  /\ value # digitalIds.searchTerm
  /\ digitalIds' = DigitalIds_render(mockTouristData, value,
                                     digitalIds.statusFilter, digitalIds.nationalityFilter)
  /\ phase' = "update"
  /\ UNCHANGED <<mounted, mockTouristData, mockAlerts, mockEFIRCases, alerts, efir, pending, toasts, markers, sidebar>>

DigitalIds_setStatusFilter(value) ==
  /\ mounted = "DigitalIds"
  /\ digitalIds.raised = "none"
  /\ value # digitalIds.statusFilter
  /\ digitalIds' = DigitalIds_render(mockTouristData, digitalIds.searchTerm,
                                     value, digitalIds.nationalityFilter)
  /\ phase' = "update"
  /\ UNCHANGED <<mounted, mockTouristData, mockAlerts, mockEFIRCases, alerts, efir, pending, toasts, markers, sidebar>>

\* Faulty variant: the rows of the previous render are kept.
DigitalIds_setNationalityFilter_stale(value) ==
  /\ mounted = "DigitalIds"
  /\ digitalIds.raised = "none"
  /\ value # digitalIds.nationalityFilter
  /\ digitalIds' = [DigitalIds_render(mockTouristData, digitalIds.searchTerm,
                                      digitalIds.statusFilter, value)
                      EXCEPT !.filteredData = digitalIds.filteredData]
  /\ phase' = "update"
  /\ UNCHANGED <<mounted, mockTouristData, mockAlerts, mockEFIRCases, alerts, efir, pending, toasts, markers, sidebar>>

DigitalIds_setNationalityFilter(value) ==
  /\ mounted = "DigitalIds"
  /\ digitalIds.raised = "none"
  /\ value # digitalIds.nationalityFilter
  /\ digitalIds' = DigitalIds_render(mockTouristData, digitalIds.searchTerm,
                                     digitalIds.statusFilter, value)
  /\ phase' = "update"
  /\ UNCHANGED <<mounted, mockTouristData, mockAlerts, mockEFIRCases, alerts, efir, pending, toasts, markers, sidebar>>

----------------------------------------------------------------------------
(* Alerts.tsx                                                              *)

MockAlerts ==
  << [id |-> "1", touristId |-> "TID-2024-003", touristName |-> "Hiroshi Tanaka",
      alertType |-> "geo-fence", status |-> "active", priority |-> "high"],
     [id |-> "2", touristId |-> "TID-2024-001", touristName |-> "John Smith",
      alertType |-> "panic", status |-> "investigating", priority |-> "high"],
     [id |-> "3", touristId |-> "TID-2024-002", touristName |-> "Marie Dubois",
      alertType |-> "anomaly", status |-> "resolved", priority |-> "medium"] >>

MockLocationData ==
  << [id |-> "1", touristId |-> "TID-2024-003", accuracy |-> 5],
     [id |-> "2", touristId |-> "TID-2024-001", accuracy |-> 8],
     [id |-> "3", touristId |-> "TID-2024-002", accuracy |-> 3] >>

\* mockClusters of the TouristClusters page.
MockClusters ==
  << [id |-> "1", count |-> 45, type |-> "high", area |-> "Red Fort Area"],
     [id |-> "2", count |-> 23, type |-> "medium", area |-> "Qutub Minar"],
     [id |-> "3", count |-> 67, type |-> "high", area |-> "India Gate"],
     [id |-> "4", count |-> 12, type |-> "low", area |-> "Karol Bagh"] >>

\* The values the status <Select> offers.
Alerts_StatusItems == {"all", "active", "investigating", "resolved"}

\* The values the priority <Select> offers.
Alerts_PriorityItems == {"all", "high", "medium", "low"}

\* Faulty variant: "all" lets only the listed statuses pass.
Alerts_matchesStatus_knownOnly(alert, statusFilter) ==
  \/ statusFilter = "all" /\ Has(alert, "status")
       /\ alert.status \in {"active", "investigating", "resolved"}
  \/ StrictEq(alert, "status", statusFilter)

Alerts_matchesStatus(alert, statusFilter) ==
  statusFilter = "all" \/ StrictEq(alert, "status", statusFilter)

\* Faulty variant: the priority selection is ignored.
Alerts_matchesPriority_ignored(alert, priorityFilter) == TRUE

Alerts_matchesPriority(alert, priorityFilter) ==
  priorityFilter = "all" \/ StrictEq(alert, "priority", priorityFilter)

\* Faulty variant: the matching alerts, latest first.
Alerts_filteredAlerts_reversed(data, statusFilter, priorityFilter) ==
  LET kept == SelectSeq(data, LAMBDA alert :
                /\ Alerts_matchesStatus(alert, statusFilter)
                /\ Alerts_matchesPriority(alert, priorityFilter))
  IN [i \in 1..Len(kept) |-> kept[Len(kept) + 1 - i]]

Alerts_filteredAlerts(data, statusFilter, priorityFilter) ==
  SelectSeq(data, LAMBDA alert :
    /\ Alerts_matchesStatus(alert, statusFilter)
    /\ Alerts_matchesPriority(alert, priorityFilter))

\* The tiles are counted over the filtered rows.
\* Faulty variant: the tiles count the whole collection.
Alerts_stats_unfiltered(data, filtered) ==
  << [label |-> "Active Alerts",
      value |-> ToString(Len(SelectSeq(data, LAMBDA a : StrictEq(a, "status", "active"))))],
     [label |-> "High Priority",
      value |-> ToString(Len(SelectSeq(data, LAMBDA a : StrictEq(a, "priority", "high"))))],
     [label |-> "Under Investigation",
      value |-> ToString(Len(SelectSeq(data, LAMBDA a : StrictEq(a, "status", "investigating"))))],
     [label |-> "Resolved Today",
      value |-> ToString(Len(SelectSeq(data, LAMBDA a : StrictEq(a, "status", "resolved"))))] >>

Alerts_stats(data, filtered) ==
  << [label |-> "Active Alerts",
      value |-> ToString(Len(SelectSeq(filtered, LAMBDA a : StrictEq(a, "status", "active"))))],
     [label |-> "High Priority",
      value |-> ToString(Len(SelectSeq(filtered, LAMBDA a : StrictEq(a, "priority", "high"))))],
     [label |-> "Under Investigation",
      value |-> ToString(Len(SelectSeq(filtered, LAMBDA a : StrictEq(a, "status", "investigating"))))],
     [label |-> "Resolved Today",
      value |-> ToString(Len(SelectSeq(filtered, LAMBDA a : StrictEq(a, "status", "resolved"))))] >>

\* A table row raises when it upper-cases an undefined priority or status.
Alerts_rowThrows(alert) == ~Has(alert, "priority") \/ ~Has(alert, "status")

\* variants[status] || variants.active
Alerts_getStatusBadge(status) ==
  LET variants ==
        [active |-> [variant |-> "destructive", className |-> ""],
         investigating |-> [variant |-> "default", className |-> "bg-warning text-warning-foreground"],
         resolved |-> [variant |-> "default", className |-> "bg-success text-success-foreground"]]
      found == GetProperty(variants, status)
  IN IF found # Undefined THEN found ELSE variants.active

\* variants[priority] || variants.medium
Alerts_getPriorityBadge(priority) ==
  LET variants ==
        [high |-> [variant |-> "destructive", className |-> ""],
         medium |-> [variant |-> "default", className |-> "bg-warning text-warning-foreground"],
         low |-> [variant |-> "secondary", className |-> ""]]
      found == GetProperty(variants, priority)
  IN IF found # Undefined THEN found ELSE variants.medium

\* The count in the header badge: filteredAlerts.filter(a => a.status === 'active').length
Alerts_headerBadge(filtered) ==
  Len(SelectSeq(filtered, LAMBDA a : StrictEq(a, "status", "active")))

Alerts_render(data, statusFilter, priorityFilter) ==
  LET base == [statusFilter |-> statusFilter, priorityFilter |-> priorityFilter]
      filtered == Alerts_filteredAlerts(data, statusFilter, priorityFilter)
  IN IF \E i \in DOMAIN filtered : Alerts_rowThrows(filtered[i])
     THEN base @@ [filteredAlerts |-> <<>>, stats |-> <<>>, badges |-> <<>>,
                   headerBadge |-> 0, raised |-> "row"]
     ELSE base @@ [filteredAlerts |-> filtered,
                   stats |-> Alerts_stats(data, filtered),
                   headerBadge |-> Alerts_headerBadge(filtered),
                   badges |-> [i \in DOMAIN filtered |->
                     [priority |-> Alerts_getPriorityBadge(PropertyKey(filtered[i], "priority")),
                      status |-> Alerts_getStatusBadge(PropertyKey(filtered[i], "status"))]],
                   raised |-> "none"]

\* selectedAlert when no alert is selected.
Null == [null |-> TRUE]

\* mockAlerts.find(a => a.touristId === touristId): the first such alert, or
\* undefined.
Alerts_findByTouristId(data, touristId) ==
  LET hits == { i \in DOMAIN data : StrictEq(data[i], "touristId", touristId) }
  IN IF hits = {} THEN Undefined
     ELSE data[CHOOSE i \in hits : \A j \in hits : i <= j]

\* Faulty variant: low priority is drawn amber.
Alerts_markerColor_lowAmber(alert) ==
  IF alert # Undefined /\ StrictEq(alert, "priority", "high") THEN "#ef4444"
  ELSE IF alert # Undefined /\ Has(alert, "priority")
            /\ alert.priority \in {"medium", "low"} THEN "#f59e0b"
  ELSE "#10b981"

\* alert?.priority === 'high' ? '#ef4444' :
\* alert?.priority === 'medium' ? '#f59e0b' : '#10b981'
Alerts_markerColor(alert) ==
  IF alert # Undefined /\ StrictEq(alert, "priority", "high") THEN "#ef4444"
  ELSE IF alert # Undefined /\ StrictEq(alert, "priority", "medium") THEN "#f59e0b"
  ELSE "#10b981"

\* The body of the mount effect: one circle marker per location.
Alerts_addMarkers(locations, data) ==
  [i \in DOMAIN locations |->
     [touristId |-> locations[i].touristId,
      fillColor |-> Alerts_markerColor(Alerts_findByTouristId(data, locations[i].touristId))]]

\* Faulty variant: an alert the new filter leaves out is deselected.
Alerts_setStatusFilter_deselects(value) ==
  /\ mounted = "Alerts"
  /\ alerts.raised = "none"
  /\ value # alerts.statusFilter
  /\ LET rendered == Alerts_render(mockAlerts, value, alerts.priorityFilter) IN
     alerts' = rendered @@
       [selectedAlert |-> IF InSeq(alerts.selectedAlert, rendered.filteredAlerts)
                          THEN alerts.selectedAlert ELSE Null]
  /\ phase' = "update"
  /\ UNCHANGED <<mounted, mockTouristData, mockAlerts, mockEFIRCases, digitalIds, efir, pending, toasts, markers, sidebar>>

Alerts_setStatusFilter(value) ==
  /\ mounted = "Alerts"
  /\ alerts.raised = "none"
  /\ value # alerts.statusFilter
  /\ alerts' = Alerts_render(mockAlerts, value, alerts.priorityFilter)
                  @@ [selectedAlert |-> alerts.selectedAlert]
  /\ phase' = "update"
  /\ UNCHANGED <<mounted, mockTouristData, mockAlerts, mockEFIRCases, digitalIds, efir, pending, toasts, markers, sidebar>>

Alerts_setPriorityFilter(value) ==
  /\ mounted = "Alerts"
  /\ alerts.raised = "none"
  /\ value # alerts.priorityFilter
  /\ alerts' = Alerts_render(mockAlerts, alerts.statusFilter, value)
                  @@ [selectedAlert |-> alerts.selectedAlert]
  /\ phase' = "update"
  /\ UNCHANGED <<mounted, mockTouristData, mockAlerts, mockEFIRCases, digitalIds, efir, pending, toasts, markers, sidebar>>

\* A click on a table row selects its alert.
Alerts_selectAlert(alert) ==
  /\ mounted = "Alerts"
  /\ alerts.raised = "none"
  /\ InSeq(alert, alerts.filteredAlerts)
  /\ alert # alerts.selectedAlert
  /\ alerts' = Alerts_render(mockAlerts, alerts.statusFilter, alerts.priorityFilter)
                  @@ [selectedAlert |-> alert]
  /\ phase' = "update"
  /\ UNCHANGED <<mounted, mockTouristData, mockAlerts, mockEFIRCases, digitalIds, efir, pending, toasts, markers, sidebar>>

\* The close button of the details card.
Alerts_closeSelectedAlert ==
  /\ mounted = "Alerts"
  /\ alerts.raised = "none"
  /\ alerts.selectedAlert # Null
  /\ alerts' = Alerts_render(mockAlerts, alerts.statusFilter, alerts.priorityFilter)
                  @@ [selectedAlert |-> Null]
  /\ phase' = "update"
  /\ UNCHANGED <<mounted, mockTouristData, mockAlerts, mockEFIRCases, digitalIds, efir, pending, toasts, markers, sidebar>>

----------------------------------------------------------------------------
(* EFir (src/unnamed/part_002)                                             *)

MockEFIRCases ==
  << [id |-> "1", firNumber |-> "FIR-2024-001", touristId |-> "TID-2024-005",
      touristName |-> "Sarah Johnson", caseType |-> "missing",
      status |-> "investigating", priority |-> "high"],
     [id |-> "2", firNumber |-> "FIR-2024-002", touristId |-> "TID-2024-006",
      touristName |-> "Michael Brown", caseType |-> "theft",
      status |-> "resolved", priority |-> "medium"] >>

\* The values the status <Select> offers.
EFir_StatusItems == {"all", "pending", "investigating", "resolved", "closed"}

\* Faulty variant: = written for ===, so that under a concrete filter every
\* case passes, rebuilt with the selected status.
EFir_filteredCases_assigns(data, statusFilter) ==
  IF statusFilter = "all" THEN data
  ELSE [i \in DOMAIN data |-> [data[i] EXCEPT !.status = statusFilter]]

\* Faulty variant: the first matching case is dropped.
EFir_filteredCases_skipFirst(data, statusFilter) ==
  LET kept == SelectSeq(data, LAMBDA case_ :
                statusFilter = "all" \/ StrictEq(case_, "status", statusFilter))
  IN SubSeq(kept, 2, Len(kept))

\* Faulty variant: the cases of the selected status are the ones left out.
EFir_filteredCases_excludes(data, statusFilter) ==
  SelectSeq(data, LAMBDA case_ : statusFilter = "all" \/ ~StrictEq(case_, "status", statusFilter))

EFir_filteredCases(data, statusFilter) ==
  SelectSeq(data, LAMBDA case_ :
    statusFilter = "all" \/ StrictEq(case_, "status", statusFilter))

\* Faulty variant: "Total Cases" shows the number of the next case.
EFir_stats_nextNumber(data, filtered) ==
  << [label |-> "Total Cases", value |-> ToString(Len(data) + 1)],
     [label |-> "Active Cases",
      value |-> ToString(Len(SelectSeq(data, LAMBDA c :
                  StrictEq(c, "status", "investigating") \/ StrictEq(c, "status", "pending"))))],
     [label |-> "Resolved Today",
      value |-> ToString(Len(SelectSeq(data, LAMBDA c : StrictEq(c, "status", "resolved"))))],
     [label |-> "High Priority",
      value |-> ToString(Len(SelectSeq(data, LAMBDA c : StrictEq(c, "priority", "high"))))] >>

\* The tiles are counted over the collection, not over the filtered rows.
EFir_stats(data, filtered) ==
  << [label |-> "Total Cases", value |-> ToString(Len(data))],
     [label |-> "Active Cases",
      value |-> ToString(Len(SelectSeq(data, LAMBDA c :
                  StrictEq(c, "status", "investigating") \/ StrictEq(c, "status", "pending"))))],
     [label |-> "Resolved Today",
      value |-> ToString(Len(SelectSeq(data, LAMBDA c : StrictEq(c, "status", "resolved"))))],
     [label |-> "High Priority",
      value |-> ToString(Len(SelectSeq(data, LAMBDA c : StrictEq(c, "priority", "high"))))] >>

\* A table row raises when it upper-cases an undefined priority or status.
EFir_rowThrows(case_) == ~Has(case_, "priority") \/ ~Has(case_, "status")

\* variants[status] || variants.pending
EFir_getStatusBadge(status) ==
  LET variants ==
        [pending |-> [variant |-> "outline", className |-> "text-warning bg-warning/10"],
         investigating |-> [variant |-> "default", className |-> "bg-info text-info-foreground"],
         resolved |-> [variant |-> "default", className |-> "bg-success text-success-foreground"],
         closed |-> [variant |-> "secondary", className |-> ""]]
      found == GetProperty(variants, status)
  IN IF found # Undefined THEN found ELSE variants.pending

\* variants[priority] || variants.medium
EFir_getPriorityBadge(priority) ==
  LET variants ==
        [high |-> [variant |-> "destructive", className |-> ""],
         medium |-> [variant |-> "default", className |-> "bg-warning text-warning-foreground"],
         low |-> [variant |-> "secondary", className |-> ""]]
      found == GetProperty(variants, priority)
  IN IF found # Undefined THEN found ELSE variants.medium

EFir_render(data, statusFilter) ==
  LET base == [statusFilter |-> statusFilter]
      filtered == EFir_filteredCases(data, statusFilter)
  IN IF \E i \in DOMAIN filtered : EFir_rowThrows(filtered[i])
     THEN base @@ [filteredCases |-> <<>>, stats |-> <<>>, badges |-> <<>>, raised |-> "row"]
     ELSE base @@ [filteredCases |-> filtered,
                   stats |-> EFir_stats(data, filtered),
                   badges |-> [i \in DOMAIN filtered |->
                     [priority |-> EFir_getPriorityBadge(PropertyKey(filtered[i], "priority")),
                      status |-> EFir_getStatusBadge(PropertyKey(filtered[i], "status"))]],
                   raised |-> "none"]

\* The useState cells of the new-case flow, as a render leaves them.
EFir_cells(isFormOpen, isConfirmationOpen, generatedFIRNumber, formData) ==
  [isFormOpen |-> isFormOpen, isConfirmationOpen |-> isConfirmationOpen,
   generatedFIRNumber |-> generatedFIRNumber, formData |-> formData]

EFir_keepCells ==
  EFir_cells(efir.isFormOpen, efir.isConfirmationOpen, efir.generatedFIRNumber, efir.formData)

EFir_setStatusFilter(value) ==
  /\ mounted = "EFir"
  /\ efir.raised = "none"
  /\ value # efir.statusFilter
  /\ efir' = EFir_render(mockEFIRCases, value) @@ EFir_keepCells
  /\ phase' = "update"
  /\ UNCHANGED <<mounted, mockTouristData, mockAlerts, mockEFIRCases, digitalIds, alerts, pending, toasts, markers, sidebar>>

FormFields ==
  {"touristId", "lastSeen", "location", "description", "caseType",
   "reporterName", "reporterContact"}

\* The inputs marked required: the browser submits the form only when none
\* of them is empty.  The case type <Select> is not among them.
RequiredFields == FormFields \ {"caseType"}

\* Texts typed into a form field.
FormTexts == {"", "x"}

EmptyForm == [f \in FormFields |-> ""]

DigitChars == <<"0","1","2","3","4","5","6","7","8","9">>

\* String(n) for a natural number n: its decimal digits.
RECURSIVE NumberToString(_)
NumberToString(n) ==
  IF n < 10 THEN <<DigitChars[n + 1]>>
  ELSE NumberToString(n \div 10) \o <<DigitChars[(n % 10) + 1]>>

\* String.prototype.padStart with a one-character filler.
padStart(s, targetLength, padChar) ==
  IF Len(s) >= targetLength THEN s
  ELSE [i \in 1..(targetLength - Len(s)) |-> padChar] \o s

\* Faulty variant: the number of the last case, not of the next one.
EFir_firNumber_last(cases) ==
  <<"F","I","R","-","2","0","2","4","-">> \o padStart(NumberToString(Len(cases)), 3, "0")

\* `FIR-2024-${String(mockEFIRCases.length + 1).padStart(3, '0')}`
EFir_firNumber(cases) ==
  <<"F","I","R","-","2","0","2","4","-">> \o padStart(NumberToString(Len(cases) + 1), 3, "0")

\* Faulty variant: the completed submission is pushed onto the case list,
\* numbered by the length of the list.
EFir_casesAfterSubmit_push(cases, firNumber) ==
  Append(cases, [id |-> ToString(Len(cases) + 1), firNumber |-> firNumber,
                 status |-> "pending", priority |-> "medium"])

\* Faulty variant: the completed submission files a copy of the last case.
EFir_casesAfterSubmit_copy(cases, firNumber) ==
  IF cases = <<>> THEN cases ELSE Append(cases, cases[Len(cases)])

\* The case list after a submission completes: handleSubmit changes only
\* useState cells and emits a toast, so the list is as before.
EFir_casesAfterSubmit(cases, firNumber) == cases

\* The "Generate New E-FIR" button.
EFir_openForm ==
  /\ mounted = "EFir"
  /\ efir.raised = "none"
  /\ ~efir.isFormOpen
  /\ efir' = EFir_render(mockEFIRCases, efir.statusFilter)
                @@ EFir_cells(TRUE, efir.isConfirmationOpen, efir.generatedFIRNumber,
                              efir.formData)
  /\ phase' = "update"
  /\ UNCHANGED <<mounted, mockTouristData, mockAlerts, mockEFIRCases, digitalIds, alerts, pending, toasts, markers, sidebar>>

\* The Cancel button, and the form dialog's onOpenChange(false).
EFir_closeForm ==
  /\ mounted = "EFir"
  /\ efir.raised = "none"
  /\ efir.isFormOpen
  /\ efir' = EFir_render(mockEFIRCases, efir.statusFilter)
                @@ EFir_cells(FALSE, efir.isConfirmationOpen, efir.generatedFIRNumber,
                              efir.formData)
  /\ phase' = "update"
  /\ UNCHANGED <<mounted, mockTouristData, mockAlerts, mockEFIRCases, digitalIds, alerts, pending, toasts, markers, sidebar>>

EFir_handleInputChange(field, value) ==
  /\ mounted = "EFir"
  /\ efir.raised = "none"
  /\ efir.isFormOpen
  /\ value # efir.formData[field]
  /\ efir' = EFir_render(mockEFIRCases, efir.statusFilter)
                @@ EFir_cells(efir.isFormOpen, efir.isConfirmationOpen,
                              efir.generatedFIRNumber,
                              [efir.formData EXCEPT ![field] = value])
  /\ phase' = "update"
  /\ UNCHANGED <<mounted, mockTouristData, mockAlerts, mockEFIRCases, digitalIds, alerts, pending, toasts, markers, sidebar>>

\* handleSubmit up to its await: the number is computed and the timer started.
EFir_handleSubmit ==
  /\ mounted = "EFir"
  /\ efir.raised = "none"
  /\ efir.isFormOpen
  /\ \A f \in RequiredFields : efir.formData[f] # ""
  /\ Len(pending) + Len(toasts) < MaxSubmits
  /\ pending' = Append(pending, EFir_firNumber(mockEFIRCases))
  /\ UNCHANGED <<mounted, mockTouristData, mockAlerts, mockEFIRCases, digitalIds, alerts, efir, phase, toasts, markers, sidebar>>

\* Faulty variant: the simulated API call fails.
EFir_apiCallRejects_always == TRUE

\* Whether the awaited promise rejects: it is settled by setTimeout(resolve)
\* alone, and nothing else in the try block raises.
EFir_apiCallRejects == FALSE

\* Faulty variant: a submission whose form was closed meanwhile is dropped.
EFir_submitCompletes_unlessClosed ==
  /\ mounted = "EFir"
  /\ efir.raised = "none"
  /\ pending # <<>>
  /\ LET firNumber == Head(pending) IN
     IF ~efir.isFormOpen
     THEN UNCHANGED <<mockEFIRCases, efir, toasts>>
     ELSE /\ mockEFIRCases' = EFir_casesAfterSubmit(mockEFIRCases, firNumber)
          /\ efir' = EFir_render(mockEFIRCases', efir.statusFilter)
                        @@ EFir_cells(FALSE, TRUE, firNumber, EmptyForm)
          /\ toasts' = Append(toasts,
                          [title |-> "E-FIR Generated Successfully",
                           description |-> <<"F","I","R"," ","N","u","m","b","e","r",":"," ">>
                                             \o firNumber])
  /\ pending' = Tail(pending)
  /\ phase' = "update"
  /\ UNCHANGED <<mounted, mockTouristData, mockAlerts, digitalIds, alerts, markers, sidebar>>

\* handleSubmit after its await: the timer of the oldest pending submission
\* has fired.
EFir_submitCompletes ==
  /\ mounted = "EFir"
  /\ efir.raised = "none"
  /\ pending # <<>>
  /\ LET firNumber == Head(pending) IN
     IF EFir_apiCallRejects
     THEN /\ toasts' = Append(toasts,
                          [title |-> "Error",
                           description |-> "Failed to generate E-FIR. Please try again.",
                           variant |-> "destructive"])
          /\ UNCHANGED <<mockEFIRCases, efir>>
     ELSE /\ mockEFIRCases' = EFir_casesAfterSubmit(mockEFIRCases, firNumber)
          /\ efir' = EFir_render(mockEFIRCases', efir.statusFilter)
                        @@ EFir_cells(FALSE, TRUE, firNumber, EmptyForm)
          /\ toasts' = Append(toasts,
                          [title |-> "E-FIR Generated Successfully",
                           description |-> <<"F","I","R"," ","N","u","m","b","e","r",":"," ">>
                                             \o firNumber])
  /\ pending' = Tail(pending)
  /\ phase' = "update"
  /\ UNCHANGED <<mounted, mockTouristData, mockAlerts, digitalIds, alerts, markers, sidebar>>

\* The Acknowledged button, and the confirmation dialog's onOpenChange(false).
EFir_closeConfirmation ==
  /\ mounted = "EFir"
  /\ efir.raised = "none"
  /\ efir.isConfirmationOpen
  /\ efir' = EFir_render(mockEFIRCases, efir.statusFilter)
                @@ EFir_cells(efir.isFormOpen, FALSE, efir.generatedFIRNumber,
                              efir.formData)
  /\ phase' = "update"
  /\ UNCHANGED <<mounted, mockTouristData, mockAlerts, mockEFIRCases, digitalIds, alerts, pending, toasts, markers, sidebar>>

----------------------------------------------------------------------------
(* AppSidebar (src/unnamed/part_000)                                       *)

\* The urls of menuItems, in order.
MenuUrls ==
  << <<"/">>, <<"/","d","i","g","i","t","a","l","-","i","d","s">>,
     <<"/","a","l","e","r","t","s">>, <<"/","e","f","i","r">> >>

\* String.prototype.startsWith
startsWith(s, prefix) ==
  /\ Len(prefix) <= Len(s)
  /\ \A i \in 1..Len(prefix) : s[i] = prefix[i]

\* Faulty variant: the root item matches by prefix like the others.
isActive_rootByPrefix(path, currentPath) == startsWith(currentPath, path)

isActive(path, currentPath) ==
  IF path = <<"/">> /\ currentPath = <<"/">> THEN TRUE
  ELSE IF path # <<"/">> /\ startsWith(currentPath, path) THEN TRUE
  ELSE FALSE

getNavClasses(path, currentPath) ==
  IF isActive(path, currentPath)
  THEN "flex items-center w-full transition-colors bg-primary text-primary-foreground hover:bg-primary-dark"
  ELSE "flex items-center w-full transition-colors text-muted-foreground hover:bg-accent/10 hover:text-accent-foreground"

\* One run of the sidebar's body at a location: the class of each menu link.
AppSidebar_render(currentPath) ==
  [currentPath |-> currentPath,
   navClasses |-> [i \in DOMAIN MenuUrls |-> getNavClasses(MenuUrls[i], currentPath)]]

\* A click on the NavLink of a menu item.
AppSidebar_navigate(url) ==
  /\ mounted = "AppSidebar"
  /\ url # sidebar.currentPath
  /\ sidebar' = AppSidebar_render(url)
  /\ phase' = "update"
  /\ UNCHANGED <<mounted, mockTouristData, mockAlerts, mockEFIRCases, digitalIds, alerts, efir, pending, toasts, markers>>

----------------------------------------------------------------------------
(* Specifications                                                          *)

Pages == {"DigitalIds", "Alerts", "EFir"}

\* The location at which each list view is shown.
PagePath == [DigitalIds |-> MenuUrls[2], Alerts |-> MenuUrls[3], EFir |-> MenuUrls[4]]

\* The first render of each page: every useState cell at its initial value.
MountPages ==
  /\ digitalIds = DigitalIds_render(mockTouristData, <<>>, "all", "all")
  /\ alerts = Alerts_render(mockAlerts, "all", "all") @@ [selectedAlert |-> Null]
  /\ efir = EFir_render(mockEFIRCases, "all") @@ EFir_cells(FALSE, FALSE, <<>>, EmptyForm)
  /\ phase = "mount"
  /\ pending = <<>>
  /\ toasts = <<>>
  /\ markers = IF mounted = "Alerts" /\ alerts.raised = "none"
               THEN Alerts_addMarkers(MockLocationData, mockAlerts)
               ELSE <<>>

\* The first render of the mounted page and of the sidebar beside it.
Mount ==
  /\ MountPages
  /\ sidebar = AppSidebar_render(PagePath[mounted])

\* The dashboard as shipped: the three module-level sample collections.
Init ==
  /\ mounted \in Pages
  /\ mockTouristData = MockTouristData
  /\ mockAlerts = MockAlerts
  /\ mockEFIRCases = MockEFIRCases
  /\ Mount

\* The search and filter controls of the three views.
Filtering ==
  \/ \E value \in SearchTerms : DigitalIds_setSearchTerm(value)
  \/ \E value \in DigitalIds_StatusItems : DigitalIds_setStatusFilter(value)
  \/ \E value \in DigitalIds_NationalityItems : DigitalIds_setNationalityFilter(value)
  \/ \E value \in Alerts_StatusItems : Alerts_setStatusFilter(value)
  \/ \E value \in Alerts_PriorityItems : Alerts_setPriorityFilter(value)
  \/ \E value \in EFir_StatusItems : EFir_setStatusFilter(value)

Next ==
  \/ Filtering
  \/ \E i \in DOMAIN mockAlerts : Alerts_selectAlert(mockAlerts[i])
  \/ Alerts_closeSelectedAlert
  \/ EFir_openForm
  \/ EFir_closeForm
  \/ \E field \in FormFields : \E value \in FormTexts : EFir_handleInputChange(field, value)
  \/ EFir_handleSubmit
  \/ EFir_submitCompletes
  \/ EFir_closeConfirmation

Spec == Init /\ [][Next]_vars

----------------------------------------------------------------------------
(* The filters as functions of an arbitrary collection: the same component *)
(* bodies, run over collections drawn from small sets of records.          *)

\* A record without one of its keys.
Without(record, field) == [k \in DOMAIN record \ {field} |-> record[k]]

\* Records get their id from their position, so that the records of one
\* collection are distinct objects.
WithIds(s) == [i \in DOMAIN s |-> s[i] @@ [id |-> ToString(i)]]

Collections(universe) ==
  { WithIds(s) : s \in UNION { [1..n -> universe] : n \in 0..MaxLen } }

\* The timer of a pending submission fires: the page stays mounted, so the
\* continuation of handleSubmit runs 1.5 s after each submission.
SpecLive == Init /\ [][Next]_vars /\ WF_vars(EFir_submitCompletes)

\* Records of the declared shapes, with string fields; the status "lost" and
\* the priority "urgent" are outside the declared enumerations.
AnyTourists ==
  [ name : { <<"M","a","r","y">>, <<"A","b","e">> },
    digitalId : { <<"T","-","0","0","2">> },
    nationality : { "USA", "UK" },
    status : { "active", "alert", "lost" },
    location : { <<"M","a","r","k","e","t">> } ]

AnyAlerts ==
  [ status : { "active", "investigating", "resolved", "lost" },
    priority : { "high", "medium", "urgent" } ]

AnyCases ==
  [ status : { "pending", "investigating", "resolved", "lost" },
    priority : { "high", "low" } ]

\* Records with one field absent, beside two complete ones.
UntypedTourists ==
  LET complete == { [name |-> <<"M","a","r","y">>, digitalId |-> <<"T","-","0","0","2">>,
                     nationality |-> "USA", status |-> "active"],
                    [name |-> <<"A","b","e">>, digitalId |-> <<"T","-","0","0","2">>,
                     nationality |-> "UK", status |-> "alert"] }
  IN complete \cup { Without(r, f) : r \in complete,
                                     f \in {"name", "digitalId", "nationality", "status"} }

UntypedAlerts ==
  LET complete == { [status |-> "active", priority |-> "high"],
                    [status |-> "resolved", priority |-> "medium"] }
  IN complete \cup { Without(r, f) : r \in complete, f \in {"status", "priority"} }

UntypedCases ==
  LET complete == { [status |-> "investigating", priority |-> "high"],
                    [status |-> "resolved", priority |-> "low"] }
  IN complete \cup { Without(r, f) : r \in complete, f \in {"status", "priority"} }

\* The mounted page runs over a drawn collection (or its sample collection);
\* the other pages keep their sample collections.
InitOver(tourists, alertRecords, cases) ==
  /\ mounted \in Pages
  /\ mockTouristData \in IF mounted = "DigitalIds"
                           THEN Collections(tourists) \cup {MockTouristData}
                           ELSE {MockTouristData}
  /\ mockAlerts \in IF mounted = "Alerts"
                      THEN Collections(alertRecords) \cup {MockAlerts}
                      ELSE {MockAlerts}
  /\ mockEFIRCases \in IF mounted = "EFir"
                         THEN Collections(cases) \cup {MockEFIRCases}
                         ELSE {MockEFIRCases}
  /\ Mount

InitAny == InitOver(AnyTourists, AnyAlerts, AnyCases)

SpecAny == InitAny /\ [][Filtering]_vars

InitUntyped == InitOver(UntypedTourists, UntypedAlerts, UntypedCases)

SpecUntyped == InitUntyped /\ [][Filtering]_vars

\* Records whose status or priority is any string: a known member, an unknown
\* word, or a word that names a member of Object.prototype.
BadgeTourists ==
  [ name : { <<"M","a","r","y">> }, digitalId : { <<"T","-","0","0","2">> },
    nationality : { "USA" },
    status : { "active", "inactive", "lost", "constructor" } ]

BadgeAlerts ==
  [ status : { "resolved", "lost", "constructor" }, priority : { "high", "urgent", "toString" } ]

BadgeCases ==
  [ status : { "closed", "lost", "valueOf" }, priority : { "low", "urgent", "__proto__" } ]

InitBadges == InitOver(BadgeTourists, BadgeAlerts, BadgeCases)

SpecBadges == InitBadges /\ [][Filtering]_vars

\* Location paths: a menu url, a part of one, or another stem, followed by up
\* to MaxTail further characters.
PathStems ==
  { <<>>, <<"/","d","i","g","i","t","a","l","-","i","d","s">>, <<"/","a","l","e","r","t","s">>, <<"/","e","f","i","r">>,
    <<"/","d","i","g","i","t","a","l">>, <<"/","a","l","e","r","t">>, <<"/","e","f","i">>,
    <<"/","A","l","e","r","t","s">>, <<"/","x","/","a","l","e","r","t","s">> }

PathTails == UNION { [1..n -> {"/", "s", "1"}] : n \in 0..MaxTail }

Paths == { p \in { stem \o tail : stem \in PathStems, tail \in PathTails } :
             p # <<>> /\ p[1] = "/" }

\* The sidebar alone, at any location.
InitSidebar ==
  /\ mounted = "AppSidebar"
  /\ mockTouristData = MockTouristData
  /\ mockAlerts = MockAlerts
  /\ mockEFIRCases = MockEFIRCases
  /\ MountPages
  /\ \E currentPath \in Paths : sidebar = AppSidebar_render(currentPath)

SpecSidebar ==
  InitSidebar /\ [][\E i \in DOMAIN MenuUrls : AppSidebar_navigate(MenuUrls[i])]_vars

\* Alerts of tourists with and without a location, in every priority.
MarkerAlerts ==
  [ touristId : { "TID-2024-001", "TID-2024-002" },
    status : { "active", "resolved" },
    priority : { "high", "medium", "low" } ]

InitMarkers == InitOver({}, MarkerAlerts, {})

\* Alerts as the Alert interface declares them: status and priority within
\* their enumerations.
TypedAlerts ==
  [ status : { "active", "investigating", "resolved" },
    priority : { "high", "medium", "low" } ]

InitTyped == InitOver({}, TypedAlerts, {})

SpecTyped == InitTyped /\ [][Filtering]_vars

SpecMarkers == InitMarkers /\ [][Filtering]_vars

----------------------------------------------------------------------------
(* Properties                                                              *)

\* The value a statistics tile shows under a label.
StatValue(stats, label) == stats[CHOOSE i \in DOMAIN stats : stats[i].label = label].value

\* How often x occurs in s.
Occurrences(x, s) == Cardinality({ j \in DOMAIN s : s[j] = x })

DigitalIds_KnownStatuses == {"active", "inactive", "alert"}
Alerts_KnownStatuses == {"active", "resolved", "investigating"}
EFir_KnownStatuses == {"pending", "investigating", "resolved", "closed"}
KnownPriorities == {"high", "medium", "low"}

\* A dimension imposes its selected value unless that is the sentinel "all".
C1_DimensionHolds(record, field, selected) ==
  selected # "all" => record[field] = selected

\* The lower-cased term is a slice of the lower-cased name or digitalId.
C1_SearchHolds(record, searchTerm) ==
  \E f \in {"name", "digitalId"} :
    LET text == toLowerCase(record[f]) IN
    \E a \in 1..(Len(text) + 1) : \E b \in (a - 1)..Len(text) :
      SubSeq(text, a, b) = toLowerCase(searchTerm)

\* C1: in each list view a record of the collection is among the filtered
\* rows if and only if it satisfies all configured predicates at once: every
\* dimension not set to "all" equals the record's field, and (DigitalIds) the
\* search predicate holds.
C1_FilterIsConjunction ==
  /\ \A i \in DOMAIN mockTouristData :
       LET r == mockTouristData[i] IN
       InSeq(r, digitalIds.filteredData) <=>
         /\ C1_SearchHolds(r, digitalIds.searchTerm)
         /\ C1_DimensionHolds(r, "status", digitalIds.statusFilter)
         /\ C1_DimensionHolds(r, "nationality", digitalIds.nationalityFilter)
  /\ \A i \in DOMAIN mockAlerts :
       LET a == mockAlerts[i] IN
       InSeq(a, alerts.filteredAlerts) <=>
         /\ C1_DimensionHolds(a, "status", alerts.statusFilter)
         /\ C1_DimensionHolds(a, "priority", alerts.priorityFilter)
  /\ \A i \in DOMAIN mockEFIRCases :
       LET c == mockEFIRCases[i] IN
       InSeq(c, efir.filteredCases) <=> C1_DimensionHolds(c, "status", efir.statusFilter)

\* A DigitalIds state with all three predicates configured, a row shown, and
\* a record left out although it satisfies the search and status predicates.
C1_Witness ==
  /\ mounted = "DigitalIds" /\ phase = "update"
  /\ digitalIds.searchTerm # <<>>
  /\ digitalIds.statusFilter # "all"
  /\ digitalIds.nationalityFilter # "all"
  /\ Len(digitalIds.filteredData) >= 1
  /\ \E i \in DOMAIN mockTouristData :
       LET r == mockTouristData[i] IN
       /\ C1_SearchHolds(r, digitalIds.searchTerm)
       /\ r.status = digitalIds.statusFilter
       /\ r.nationality # digitalIds.nationalityFilter
       /\ ~InSeq(r, digitalIds.filteredData)

\* C2: every summary statistic of every list view equals the count, over the
\* currently filtered rows, of the records satisfying its predicate.
C2_StatsOverFiltered ==
  /\ LET f == digitalIds.filteredData  st == digitalIds.stats IN
     /\ StatValue(st, "Total Records") = ToString(Len(f))
     /\ StatValue(st, "Active Tourists") =
          ToString(Cardinality({ i \in DOMAIN f : f[i].status = "active" }))
     /\ StatValue(st, "Alert Status") =
          ToString(Cardinality({ i \in DOMAIN f : f[i].status = "alert" }))
     /\ StatValue(st, "Nationalities") =
          ToString(Cardinality({ f[i].nationality : i \in DOMAIN f }))
  /\ LET f == alerts.filteredAlerts  st == alerts.stats IN
     /\ StatValue(st, "Active Alerts") =
          ToString(Cardinality({ i \in DOMAIN f : f[i].status = "active" }))
     /\ StatValue(st, "High Priority") =
          ToString(Cardinality({ i \in DOMAIN f : f[i].priority = "high" }))
     /\ StatValue(st, "Under Investigation") =
          ToString(Cardinality({ i \in DOMAIN f : f[i].status = "investigating" }))
     /\ StatValue(st, "Resolved Today") =
          ToString(Cardinality({ i \in DOMAIN f : f[i].status = "resolved" }))
  /\ LET f == efir.filteredCases  st == efir.stats IN
     /\ StatValue(st, "Total Cases") = ToString(Len(f))
     /\ StatValue(st, "Active Cases") =
          ToString(Cardinality({ i \in DOMAIN f : f[i].status \in {"investigating", "pending"} }))
     /\ StatValue(st, "Resolved Today") =
          ToString(Cardinality({ i \in DOMAIN f : f[i].status = "resolved" }))
     /\ StatValue(st, "High Priority") =
          ToString(Cardinality({ i \in DOMAIN f : f[i].priority = "high" }))

\* C3: Scenario A.  Over the four sample identity records, with an empty
\* search, nationality "all" and status "active", the rows are exactly the
\* two active records, "Active Tourists" is 2 and "Alert Status" is 0.
C3_ScenarioA ==
  ( /\ mounted = "DigitalIds"
    /\ mockTouristData = MockTouristData
    /\ digitalIds.searchTerm = <<>>
    /\ digitalIds.nationalityFilter = "all"
    /\ digitalIds.statusFilter = "active" )
  => /\ digitalIds.filteredData = <<MockTouristData[1], MockTouristData[2]>>
     /\ StatValue(digitalIds.stats, "Active Tourists") = "2"
     /\ StatValue(digitalIds.stats, "Alert Status") = "0"

\* C4: with every dimension at "all" and (DigitalIds) an empty search term,
\* the filtered rows are the whole collection, in its order.
C4_NoFilterIsIdentity ==
  /\ ( /\ digitalIds.searchTerm = <<>>
       /\ digitalIds.statusFilter = "all"
       /\ digitalIds.nationalityFilter = "all" )
     => digitalIds.filteredData = mockTouristData
  /\ (alerts.statusFilter = "all" /\ alerts.priorityFilter = "all")
     => alerts.filteredAlerts = mockAlerts
  /\ efir.statusFilter = "all" => efir.filteredCases = mockEFIRCases

\* The DigitalIds view brought back to no filter at all after some filtering,
\* over a collection of several records.
C4_Witness ==
  /\ mounted = "DigitalIds" /\ phase = "update"
  /\ digitalIds.searchTerm = <<>>
  /\ digitalIds.statusFilter = "all"
  /\ digitalIds.nationalityFilter = "all"
  /\ Len(mockTouristData) >= 2
  /\ digitalIds.filteredData = mockTouristData

\* Every member of result is a member of collection, no more often.
C5_SubCollection(result, collection) ==
  \A i \in DOMAIN result :
    Occurrences(result[i], result) <= Occurrences(result[i], collection)

\* C5: in each list view the filtered rows are a sub-collection of the
\* collection: no invented record and no duplicated record.
C5_ResultIsSubCollection ==
  /\ C5_SubCollection(digitalIds.filteredData, mockTouristData)
  /\ C5_SubCollection(alerts.filteredAlerts, mockAlerts)
  /\ C5_SubCollection(efir.filteredCases, mockEFIRCases)

\* The EFir view showing some, but not all, of its cases under a status filter.
C5_Witness ==
  /\ mounted = "EFir" /\ phase = "update"
  /\ efir.statusFilter # "all"
  /\ Len(efir.filteredCases) >= 1
  /\ Len(efir.filteredCases) < Len(mockEFIRCases)

\* Any two rows of result stand in collection in the same order.
C6_SameOrder(result, collection) ==
  \A a \in DOMAIN result : \A b \in DOMAIN result :
    a < b => \E i \in DOMAIN collection : \E j \in DOMAIN collection :
               i < j /\ collection[i] = result[a] /\ collection[j] = result[b]

\* C6: in each list view any two records that are both among the filtered
\* rows appear there in the same relative order as in the collection.
C6_OrderPreserved ==
  /\ C6_SameOrder(digitalIds.filteredData, mockTouristData)
  /\ C6_SameOrder(alerts.filteredAlerts, mockAlerts)
  /\ C6_SameOrder(efir.filteredCases, mockEFIRCases)

\* The DigitalIds view showing at least two rows while leaving a record out.
C6_Witness ==
  /\ mounted = "DigitalIds" /\ phase = "update"
  /\ Len(digitalIds.filteredData) >= 2
  /\ Len(digitalIds.filteredData) < Len(mockTouristData)

\* C7: filtering the already filtered rows again with the same configuration
\* yields the same rows, in the same order.
C7_Idempotent ==
  /\ DigitalIds_filteredData(digitalIds.filteredData, digitalIds.searchTerm,
                             digitalIds.statusFilter, digitalIds.nationalityFilter)
       = digitalIds.filteredData
  /\ Alerts_filteredAlerts(alerts.filteredAlerts, alerts.statusFilter, alerts.priorityFilter)
       = alerts.filteredAlerts
  /\ EFir_filteredCases(efir.filteredCases, efir.statusFilter) = efir.filteredCases

\* The Alerts view showing some, but not all, alerts under a priority filter.
C7_Witness ==
  /\ mounted = "Alerts" /\ phase = "update"
  /\ alerts.priorityFilter # "all"
  /\ Len(alerts.filteredAlerts) >= 1
  /\ Len(alerts.filteredAlerts) < Len(mockAlerts)

\* C8: a record on which a filtered field is absent, or whose searched name or
\* digitalId is undefined, is left out of the rows, and the filter does not
\* raise.
C8_AbsentFieldIsNonMatching ==
  /\ digitalIds.raised # "filter"
  /\ \A i \in DOMAIN mockTouristData :
       LET r == mockTouristData[i] IN
       /\ (~Has(r, "status") /\ digitalIds.statusFilter # "all")
            => ~InSeq(r, digitalIds.filteredData)
       /\ (~Has(r, "nationality") /\ digitalIds.nationalityFilter # "all")
            => ~InSeq(r, digitalIds.filteredData)
       /\ ~Has(r, "name") => ~InSeq(r, digitalIds.filteredData)
       /\ ( /\ Has(r, "name") /\ ~Has(r, "digitalId")
            /\ ~includes(toLowerCase(r.name), toLowerCase(digitalIds.searchTerm)) )
            => ~InSeq(r, digitalIds.filteredData)
  /\ alerts.raised # "filter"
  /\ \A i \in DOMAIN mockAlerts :
       LET a == mockAlerts[i] IN
       /\ (~Has(a, "status") /\ alerts.statusFilter # "all")
            => ~InSeq(a, alerts.filteredAlerts)
       /\ (~Has(a, "priority") /\ alerts.priorityFilter # "all")
            => ~InSeq(a, alerts.filteredAlerts)

\* C9: a record whose status or priority is outside the known enumeration is
\* among the rows when that dimension is "all" and the other predicates let
\* it pass, is among no rows when that dimension has a concrete value, and
\* filtering it never raises.
C9_UnknownEnumOnlyUnderAll ==
  /\ digitalIds.raised = "none" /\ alerts.raised = "none" /\ efir.raised = "none"
  /\ \A i \in DOMAIN mockTouristData :
       LET r == mockTouristData[i] IN
       r.status \notin DigitalIds_KnownStatuses =>
         IF digitalIds.statusFilter = "all"
           THEN InSeq(r, digitalIds.filteredData) <=>
                  /\ C1_SearchHolds(r, digitalIds.searchTerm)
                  /\ C1_DimensionHolds(r, "nationality", digitalIds.nationalityFilter)
           ELSE ~InSeq(r, digitalIds.filteredData)
  /\ \A i \in DOMAIN mockAlerts :
       LET a == mockAlerts[i] IN
       /\ a.status \notin Alerts_KnownStatuses =>
            IF alerts.statusFilter = "all"
              THEN InSeq(a, alerts.filteredAlerts) <=>
                     C1_DimensionHolds(a, "priority", alerts.priorityFilter)
              ELSE ~InSeq(a, alerts.filteredAlerts)
       /\ a.priority \notin KnownPriorities =>
            IF alerts.priorityFilter = "all"
              THEN InSeq(a, alerts.filteredAlerts) <=>
                     C1_DimensionHolds(a, "status", alerts.statusFilter)
              ELSE ~InSeq(a, alerts.filteredAlerts)
  /\ \A i \in DOMAIN mockEFIRCases :
       LET c == mockEFIRCases[i] IN
       c.status \notin EFir_KnownStatuses =>
         (InSeq(c, efir.filteredCases) <=> efir.statusFilter = "all")

\* The Alerts view under a concrete status filter and priority "all": an
\* alert of unknown priority is shown, an alert of unknown status is not.
C9_Witness ==
  /\ mounted = "Alerts" /\ phase = "update"
  /\ alerts.statusFilter # "all" /\ alerts.priorityFilter = "all"
  /\ \E i \in DOMAIN mockAlerts :
       /\ mockAlerts[i].priority \notin KnownPriorities
       /\ InSeq(mockAlerts[i], alerts.filteredAlerts)
  /\ \E j \in DOMAIN mockAlerts :
       /\ mockAlerts[j].status \notin Alerts_KnownStatuses
       /\ ~InSeq(mockAlerts[j], alerts.filteredAlerts)

\* Four tiles, each showing 0.
C10_AllZero(stats) == Len(stats) = 4 /\ \A i \in DOMAIN stats : stats[i].value = "0"

\* C10: over an empty collection, in each list view and under every filter
\* configuration, the filtered rows are empty, every statistic is 0 and
\* nothing is raised.
C10_EmptyCollection ==
  /\ mockTouristData = <<>> =>
       /\ digitalIds.filteredData = <<>>
       /\ C10_AllZero(digitalIds.stats)
       /\ digitalIds.raised = "none"
  /\ mockAlerts = <<>> =>
       /\ alerts.filteredAlerts = <<>>
       /\ C10_AllZero(alerts.stats)
       /\ alerts.raised = "none"
  /\ mockEFIRCases = <<>> =>
       /\ efir.filteredCases = <<>>
       /\ C10_AllZero(efir.stats)
       /\ efir.raised = "none"

\* The EFir view over no cases at all, under a concrete status filter.
C10_Witness ==
  /\ mounted = "EFir" /\ phase = "update"
  /\ mockEFIRCases = <<>>
  /\ efir.statusFilter # "all"
  /\ efir.filteredCases = <<>>

\* The lower-cased term occurs in the lower-cased text.
C11_Occurs(text, searchTerm) ==
  LET lowText == toLowerCase(text)
      lowTerm == toLowerCase(searchTerm)
  IN \E k \in 0..(Len(text) - Len(searchTerm)) :
       \A i \in 1..Len(searchTerm) : lowText[k + i] = lowTerm[i]

\* C11: on the DigitalIds view a record passes the search exactly when the
\* lower-cased term occurs in its lower-cased name or digitalId; terms that
\* differ only in letter case give the same rows; a term occurring only in
\* another field (location) does not make a record match.
C11_SearchNameOrIdIgnoringCase ==
  /\ \A i \in DOMAIN mockTouristData :
       LET r == mockTouristData[i] IN
       ( /\ C1_DimensionHolds(r, "status", digitalIds.statusFilter)
         /\ C1_DimensionHolds(r, "nationality", digitalIds.nationalityFilter) )
       => ( InSeq(r, digitalIds.filteredData) <=>
              \/ C11_Occurs(r.name, digitalIds.searchTerm)
              \/ C11_Occurs(r.digitalId, digitalIds.searchTerm) )
  /\ \A t \in SearchTerms :
       toLowerCase(t) = toLowerCase(digitalIds.searchTerm) =>
         DigitalIds_filteredData(mockTouristData, t, digitalIds.statusFilter,
                                 digitalIds.nationalityFilter) = digitalIds.filteredData

\* An upper-case term under which one record is shown, found by its name, and
\* another is left out although the term occurs in its location.
C11_Witness ==
  /\ mounted = "DigitalIds" /\ phase = "update"
  /\ digitalIds.searchTerm # toLowerCase(digitalIds.searchTerm)
  /\ \E i \in DOMAIN mockTouristData :
       /\ C11_Occurs(mockTouristData[i].name, digitalIds.searchTerm)
       /\ InSeq(mockTouristData[i], digitalIds.filteredData)
  /\ \E j \in DOMAIN mockTouristData :
       /\ C11_Occurs(mockTouristData[j].location, digitalIds.searchTerm)
       /\ ~InSeq(mockTouristData[j], digitalIds.filteredData)
       /\ C1_DimensionHolds(mockTouristData[j], "status", digitalIds.statusFilter)
       /\ C1_DimensionHolds(mockTouristData[j], "nationality", digitalIds.nationalityFilter)

\* C12: no operation changes a record collection.  After any sequence of
\* search-term changes, filter selections, alert selections and new-case
\* submissions the three collections hold the records they were loaded with,
\* with the same field values and in the same order.
C12_CollectionsAsLoaded ==
  /\ mockTouristData = MockTouristData
  /\ mockAlerts = MockAlerts
  /\ mockEFIRCases = MockEFIRCases

\* A new-case submission has completed and a status filter has been selected.
C12_Witness ==
  /\ mounted = "EFir" /\ phase = "update"
  /\ toasts # <<>>
  /\ efir.generatedFIRNumber # <<>>
  /\ efir.statusFilter # "all"

\* C13: Scenario B.  With both filters at "all", the search term "mar" over
\* the sample identity records returns exactly one record, Marie Dubois with
\* digitalId TID-2024-002.
C13_ScenarioB ==
  ( /\ mounted = "DigitalIds"
    /\ digitalIds.searchTerm = <<"m","a","r">>
    /\ digitalIds.statusFilter = "all"
    /\ digitalIds.nationalityFilter = "all" )
  => /\ Len(digitalIds.filteredData) = 1
     /\ digitalIds.filteredData[1].name = <<"M","a","r","i","e"," ","D","u","b","o","i","s">>
     /\ digitalIds.filteredData[1].digitalId = <<"T","I","D","-","2","0","2","4","-","0","0","2">>

\* The term "mar" has been typed with both filters at "all".
C13_Witness ==
  /\ mounted = "DigitalIds" /\ phase = "update"
  /\ digitalIds.searchTerm = <<"m","a","r">>
  /\ digitalIds.statusFilter = "all"
  /\ digitalIds.nationalityFilter = "all"
  /\ digitalIds.raised = "none"

\* C14: Scenario D.  With status "all" and priority "high" over the three
\* sample alerts (two high, one medium) the result is exactly the two
\* high-priority alerts, alert '1' before alert '2'.
C14_ScenarioD ==
  ( /\ mounted = "Alerts"
    /\ alerts.statusFilter = "all"
    /\ alerts.priorityFilter = "high" )
  => /\ Len(mockAlerts) = 3
     /\ Len(SelectSeq(mockAlerts, LAMBDA a : a.priority = "high")) = 2
     /\ Len(SelectSeq(mockAlerts, LAMBDA a : a.priority = "medium")) = 1
     /\ Len(alerts.filteredAlerts) = 2
     /\ alerts.filteredAlerts[1].id = "1" /\ alerts.filteredAlerts[1].priority = "high"
     /\ alerts.filteredAlerts[2].id = "2" /\ alerts.filteredAlerts[2].priority = "high"

\* Priority "high" has been selected with the status filter at "all".
C14_Witness ==
  /\ mounted = "Alerts" /\ phase = "update"
  /\ alerts.statusFilter = "all"
  /\ alerts.priorityFilter = "high"
  /\ alerts.raised = "none"

\* C15: Scenario C.  With status "investigating" over the two sample cases
\* (one investigating, one resolved) the result is exactly one record, the
\* investigating case.
C15_ScenarioC ==
  ( /\ mounted = "EFir"
    /\ efir.statusFilter = "investigating" )
  => /\ Len(mockEFIRCases) = 2
     /\ Len(SelectSeq(mockEFIRCases, LAMBDA c : c.status = "investigating")) = 1
     /\ Len(SelectSeq(mockEFIRCases, LAMBDA c : c.status = "resolved")) = 1
     /\ Len(efir.filteredCases) = 1
     /\ efir.filteredCases[1].status = "investigating"
     /\ efir.filteredCases[1] = mockEFIRCases[1]

\* Status "investigating" has been selected.
C15_Witness ==
  /\ mounted = "EFir" /\ phase = "update"
  /\ efir.statusFilter = "investigating"
  /\ efir.raised = "none"

\* A display treatment: a badge variant and a class name.
C16_IsTreatment(badge) == DOMAIN badge = {"variant", "className"}

\* C16: the badge lookups never fail on an unrecognized value.  For every
\* string shown as a status or a priority the badge is a defined display
\* treatment: the table entry of a known enum member, and otherwise the view's
\* default (status: 'active' in DigitalIds and Alerts, 'pending' in EFir;
\* priority: 'medium').
C16_UnknownValueGetsDefaultBadge ==
  /\ (mounted = "DigitalIds" /\ digitalIds.raised = "none") =>
       \A i \in DOMAIN digitalIds.filteredData :
         LET status == digitalIds.filteredData[i].status IN
         /\ C16_IsTreatment(digitalIds.badges[i])
         /\ digitalIds.badges[i] =
              DigitalIds_getStatusBadge(IF status \in DigitalIds_KnownStatuses
                                        THEN status ELSE "active")
  /\ (mounted = "Alerts" /\ alerts.raised = "none") =>
       \A i \in DOMAIN alerts.filteredAlerts :
         LET status == alerts.filteredAlerts[i].status
             priority == alerts.filteredAlerts[i].priority IN
         /\ C16_IsTreatment(alerts.badges[i].status)
         /\ C16_IsTreatment(alerts.badges[i].priority)
         /\ alerts.badges[i].status =
              Alerts_getStatusBadge(IF status \in Alerts_KnownStatuses
                                    THEN status ELSE "active")
         /\ alerts.badges[i].priority =
              Alerts_getPriorityBadge(IF priority \in KnownPriorities
                                      THEN priority ELSE "medium")
  /\ (mounted = "EFir" /\ efir.raised = "none") =>
       \A i \in DOMAIN efir.filteredCases :
         LET status == efir.filteredCases[i].status
             priority == efir.filteredCases[i].priority IN
         /\ C16_IsTreatment(efir.badges[i].status)
         /\ C16_IsTreatment(efir.badges[i].priority)
         /\ efir.badges[i].status =
              EFir_getStatusBadge(IF status \in EFir_KnownStatuses
                                  THEN status ELSE "pending")
         /\ efir.badges[i].priority =
              EFir_getPriorityBadge(IF priority \in KnownPriorities
                                    THEN priority ELSE "medium")

\* No two records of a collection share an id.
C17_UniqueIds(collection) ==
  \A i, j \in DOMAIN collection : collection[i].id = collection[j].id => i = j

\* C17: within each record collection (mockTouristData, mockAlerts,
\* mockEFIRCases, mockLocationData, mockClusters) no two records share an id,
\* in every reachable state.
C17_IdsUnique ==
  /\ C17_UniqueIds(mockTouristData)
  /\ C17_UniqueIds(mockAlerts)
  /\ C17_UniqueIds(mockEFIRCases)
  /\ C17_UniqueIds(MockLocationData)
  /\ C17_UniqueIds(MockClusters)

\* The confirmation of a completed submission is on screen.
C17_Witness ==
  /\ mounted = "EFir" /\ phase = "update"
  /\ efir.isConfirmationOpen
  /\ toasts # <<>>
  /\ Len(mockEFIRCases) >= 2

\* The tiles of the DigitalIds view counted over a collection.
C18_IdentityStats(f) ==
  << [label |-> "Total Records", value |-> ToString(Len(f))],
     [label |-> "Active Tourists",
      value |-> ToString(Cardinality({ i \in DOMAIN f : f[i].status = "active" }))],
     [label |-> "Alert Status",
      value |-> ToString(Cardinality({ i \in DOMAIN f : f[i].status = "alert" }))],
     [label |-> "Nationalities",
      value |-> ToString(Cardinality({ f[i].nationality : i \in DOMAIN f }))] >>

\* The tiles of the Alerts view counted over a collection.
C18_AlertStats(f) ==
  << [label |-> "Active Alerts",
      value |-> ToString(Cardinality({ i \in DOMAIN f : f[i].status = "active" }))],
     [label |-> "High Priority",
      value |-> ToString(Cardinality({ i \in DOMAIN f : f[i].priority = "high" }))],
     [label |-> "Under Investigation",
      value |-> ToString(Cardinality({ i \in DOMAIN f : f[i].status = "investigating" }))],
     [label |-> "Resolved Today",
      value |-> ToString(Cardinality({ i \in DOMAIN f : f[i].status = "resolved" }))] >>

\* The tiles of the EFir view counted over a collection.
C18_CaseStats(f) ==
  << [label |-> "Total Cases", value |-> ToString(Len(f))],
     [label |-> "Active Cases",
      value |-> ToString(Cardinality({ i \in DOMAIN f :
                                        f[i].status \in {"investigating", "pending"} }))],
     [label |-> "Resolved Today",
      value |-> ToString(Cardinality({ i \in DOMAIN f : f[i].status = "resolved" }))],
     [label |-> "High Priority",
      value |-> ToString(Cardinality({ i \in DOMAIN f : f[i].priority = "high" }))] >>

\* C18 as stated: in every list view (DigitalIds, Alerts and EFir) the
\* statistics are counted over the whole collection, so after any filter or
\* search change each tile keeps the value it had with all filters at "all".
C18_StatsOverWholeCollection ==
  /\ digitalIds.stats = C18_IdentityStats(mockTouristData)
  /\ alerts.stats = C18_AlertStats(mockAlerts)
  /\ efir.stats = C18_CaseStats(mockEFIRCases)

\* C18 amended: in the DigitalIds and EFir views the statistics are counted
\* over the whole collection and keep their values under every filter or
\* search change; in the Alerts view they are counted over the filtered
\* alerts and follow the filters.
C18_StatsOverWholeExceptAlerts ==
  /\ digitalIds.stats = C18_IdentityStats(mockTouristData)
  /\ alerts.stats = C18_AlertStats(alerts.filteredAlerts)
  /\ efir.stats = C18_CaseStats(mockEFIRCases)

\* The Alerts view under a filter that changes a tile, beside which the
\* DigitalIds or EFir view can be filtered with its tiles unchanged.
C18_Witness ==
  /\ mounted = "Alerts" /\ phase = "update"
  /\ alerts.statusFilter # "all"
  /\ alerts.filteredAlerts # <<>>
  /\ alerts.stats # C18_AlertStats(mockAlerts)

\* C19: after any sequence of search-term and filter changes the rows a list
\* view shows are the filter of the whole collection under the current
\* configuration alone; no result of an earlier configuration stays on screen.
C19_RowsFollowCurrentConfiguration ==
  /\ digitalIds.filteredData =
       SelectSeq(mockTouristData, LAMBDA r :
         /\ C11_Occurs(r.name, digitalIds.searchTerm)
              \/ C11_Occurs(r.digitalId, digitalIds.searchTerm)
         /\ C1_DimensionHolds(r, "status", digitalIds.statusFilter)
         /\ C1_DimensionHolds(r, "nationality", digitalIds.nationalityFilter))
  /\ alerts.filteredAlerts =
       SelectSeq(mockAlerts, LAMBDA a :
         /\ C1_DimensionHolds(a, "status", alerts.statusFilter)
         /\ C1_DimensionHolds(a, "priority", alerts.priorityFilter))
  /\ efir.filteredCases =
       SelectSeq(mockEFIRCases, LAMBDA c : C1_DimensionHolds(c, "status", efir.statusFilter))

\* All three controls of the DigitalIds view have been changed, in some
\* order, and rows are left out.
C19_Witness ==
  /\ mounted = "DigitalIds" /\ phase = "update"
  /\ digitalIds.searchTerm # <<>>
  /\ digitalIds.statusFilter # "all"
  /\ digitalIds.nationalityFilter # "all"
  /\ digitalIds.filteredData # <<>>
  /\ Len(digitalIds.filteredData) < Len(mockTouristData)

\* n < 1000 written with three digits.
C20_ThreeDigits(n) ==
  <<DigitChars[(n \div 100) + 1], DigitChars[((n \div 10) % 10) + 1], DigitChars[(n % 10) + 1]>>

\* "FIR-2024-" followed by the three digits of n.
C20_Reference(n) == <<"F","I","R","-","2","0","2","4","-">> \o C20_ThreeDigits(n)

\* Case-list lengths at which the number of digits changes.
C20_CaseCounts == {0, 2, 8, 9, 98, 99, 998}

\* C20: the reference number of a new-case submission is a formatted string
\* only: "FIR-2024-" followed by the number of cases plus one, zero-padded to
\* three digits.  No submission adds a case, so every submission of a session
\* produces the same number and leaves the case list, the filtered cases and
\* the case statistics as they were.
C20_ReferenceNumberOnly ==
  /\ \A n \in C20_CaseCounts :
       EFir_firNumber([i \in 1..n |-> MockEFIRCases[1]]) = C20_Reference(n + 1)
  /\ efir.generatedFIRNumber \in {<<>>, C20_Reference(Len(MockEFIRCases) + 1)}
  /\ \A i \in DOMAIN pending : pending[i] = C20_Reference(Len(MockEFIRCases) + 1)
  /\ \A i \in DOMAIN toasts :
       toasts[i].description =
         <<"F","I","R"," ","N","u","m","b","e","r",":"," ">>
           \o C20_Reference(Len(MockEFIRCases) + 1)
  /\ mockEFIRCases = MockEFIRCases
  /\ efir.filteredCases =
       SelectSeq(MockEFIRCases, LAMBDA c : C1_DimensionHolds(c, "status", efir.statusFilter))
  /\ efir.stats = C18_CaseStats(MockEFIRCases)

\* Two submissions of one session have completed.
C20_Witness ==
  /\ mounted = "EFir"
  /\ Len(toasts) >= 2
  /\ efir.generatedFIRNumber # <<>>

\* The colour the claim gives the marker of a tourist: by the priority of the
\* first alert of mockAlerts with that touristId.
C21_Colour(touristId) ==
  LET hits == { i \in DOMAIN mockAlerts : mockAlerts[i].touristId = touristId }
      first == CHOOSE i \in hits : \A j \in hits : i <= j
  IN IF hits = {} THEN "#10b981"
     ELSE IF mockAlerts[first].priority = "high" THEN "#ef4444"
     ELSE IF mockAlerts[first].priority = "medium" THEN "#f59e0b"
     ELSE "#10b981"

\* C21: on the Alerts map there is one marker per location, coloured by the
\* priority of the first alert in mockAlerts with the location's touristId:
\* red for high, amber for medium, green otherwise (low priority, no matching
\* alert).  Markers come from the unfiltered alerts, so under every status and
\* priority filter the set and colours of the markers are the same.
C21_MarkersColouredByFirstAlert ==
  mounted = "Alerts" =>
    /\ Len(markers) = Len(MockLocationData)
    /\ \A i \in DOMAIN markers :
         /\ markers[i].touristId = MockLocationData[i].touristId
         /\ markers[i].fillColor = C21_Colour(MockLocationData[i].touristId)

\* A filter is selected that leaves out the alert of a red marker, beside a
\* green marker of a low-priority alert and a green marker without an alert.
C21_Witness ==
  /\ mounted = "Alerts" /\ phase = "update"
  /\ alerts.statusFilter # "all"
  /\ \E i \in DOMAIN markers :
       /\ markers[i].fillColor = "#ef4444"
       /\ \A j \in DOMAIN alerts.filteredAlerts :
            alerts.filteredAlerts[j].touristId # markers[i].touristId
  /\ \E i \in DOMAIN markers :
       /\ markers[i].fillColor = "#10b981"
       /\ \E j \in DOMAIN mockAlerts :
            /\ mockAlerts[j].touristId = markers[i].touristId
            /\ mockAlerts[j].priority = "low"
  /\ \E i \in DOMAIN markers :
       /\ markers[i].fillColor = "#10b981"
       /\ \A j \in DOMAIN mockAlerts : mockAlerts[j].touristId # markers[i].touristId

\* C22: every submission of the new-case form eventually completes (the timer
\* being fair), and it completes in a state where generatedFIRNumber holds
\* the generated number, the form dialog is closed, the confirmation dialog is
\* open and all seven fields are the empty string; the failure toast is never
\* emitted; and the confirmation dialog is open only when generatedFIRNumber
\* is non-empty.
C22_SubmissionCompletes ==
  /\ \A k \in 1..MaxSubmits :
       (Len(pending) + Len(toasts) >= k) ~> (Len(toasts) >= k)
  /\ [][ Len(pending') < Len(pending) =>
           /\ efir'.generatedFIRNumber = Head(pending)
           /\ efir'.generatedFIRNumber # <<>>
           /\ ~efir'.isFormOpen
           /\ efir'.isConfirmationOpen
           /\ DOMAIN efir'.formData = FormFields
           /\ \A f \in FormFields : efir'.formData[f] = "" ]_vars
  /\ [](\A i \in DOMAIN toasts : toasts[i].title # "Error")
  /\ [](efir.isConfirmationOpen => efir.generatedFIRNumber # <<>>)

\* A submission made from a filled form has completed: the confirmation is
\* open over the closed, emptied form.
C22_Witness ==
  /\ mounted = "EFir"
  /\ pending = <<>>
  /\ Len(toasts) = 1
  /\ efir.isConfirmationOpen /\ ~efir.isFormOpen
  /\ efir.formData = EmptyForm
  /\ efir.generatedFIRNumber # <<>>

\* C23: closing the form does not cancel a pending submission.  When the
\* timer of a submission fires while the form is closed, the confirmation
\* dialog opens and the success toast is emitted all the same, and this does
\* happen; when it fires while the form is open again with newly typed
\* fields, the form is closed and the fields are emptied.
C23_PendingSubmissionSurvivesClose ==
  /\ (pending # <<>> /\ toasts = <<>> /\ ~efir.isFormOpen) ~> (toasts # <<>>)
  /\ [][ (Len(pending') < Len(pending) /\ ~efir.isFormOpen) =>
           /\ efir'.isConfirmationOpen
           /\ efir'.generatedFIRNumber = Head(pending)
           /\ Len(toasts') = Len(toasts) + 1
           /\ toasts'[Len(toasts')].title = "E-FIR Generated Successfully" ]_vars
  /\ [][ (Len(pending') < Len(pending) /\ efir.isFormOpen) =>
           /\ ~efir'.isFormOpen
           /\ \A f \in FormFields : efir'.formData[f] = ""
           /\ efir'.isConfirmationOpen ]_vars

\* One submission has completed, which closed and emptied the form; the form
\* is open again with text typed into it while a second submission is pending.
C23_Witness ==
  /\ mounted = "EFir"
  /\ Len(toasts) = 1
  /\ pending # <<>>
  /\ efir.isFormOpen
  /\ \E f \in FormFields : efir.formData[f] # ""

\* C24: on the Alerts view, under every status and priority filter, the
\* three status tiles partition the filtered rows: Active Alerts + Under
\* Investigation + Resolved Today is the number of filtered alerts; under a
\* concrete status filter s the tile of s is that number and the other two
\* are 0; and the header badge shows the Active Alerts count.
C24_StatusTilesPartitionRows ==
  (mounted = "Alerts" /\ alerts.raised = "none") =>
    LET n == Len(alerts.filteredAlerts)
        active == StatValue(alerts.stats, "Active Alerts")
        investigating == StatValue(alerts.stats, "Under Investigation")
        resolved == StatValue(alerts.stats, "Resolved Today")
    IN /\ \E a, i, r \in 0..n :
            /\ ToString(a) = active /\ ToString(i) = investigating /\ ToString(r) = resolved
            /\ a + i + r = n
       /\ alerts.statusFilter = "active" =>
            active = ToString(n) /\ investigating = "0" /\ resolved = "0"
       /\ alerts.statusFilter = "investigating" =>
            active = "0" /\ investigating = ToString(n) /\ resolved = "0"
       /\ alerts.statusFilter = "resolved" =>
            active = "0" /\ investigating = "0" /\ resolved = ToString(n)
       /\ ToString(alerts.headerBadge) = active

\* Both filters are set and rows are left, beside rows left out.
C24_Witness ==
  /\ mounted = "Alerts" /\ phase = "update"
  /\ alerts.statusFilter # "all" /\ alerts.priorityFilter # "all"
  /\ Len(alerts.filteredAlerts) >= 1
  /\ Len(alerts.filteredAlerts) < Len(mockAlerts)
  /\ StatValue(alerts.stats, "High Priority") # "0"

\* C25: the selected alert is not tied to the filter.  A change of the status
\* or priority filter leaves selectedAlert as it is; selectedAlert changes
\* only by a row click, to the alert of a row then shown, or by the close
\* button, to null.  So the details card can show an alert that is not among
\* the filtered rows.
C25_SelectionIndependentOfFilter ==
  /\ [][ ( \/ alerts'.statusFilter # alerts.statusFilter
           \/ alerts'.priorityFilter # alerts.priorityFilter )
         => alerts'.selectedAlert = alerts.selectedAlert ]_vars
  /\ [][ alerts'.selectedAlert # alerts.selectedAlert
         => /\ \/ alerts'.selectedAlert = Null
               \/ InSeq(alerts'.selectedAlert, alerts.filteredAlerts)
            /\ alerts'.statusFilter = alerts.statusFilter
            /\ alerts'.priorityFilter = alerts.priorityFilter
            /\ alerts'.filteredAlerts = alerts.filteredAlerts ]_vars

\* An alert was selected and a filter chosen afterwards leaves it out: the
\* card shows an alert that is in none of the rows.
C25_Witness ==
  /\ mounted = "Alerts" /\ phase = "update"
  /\ alerts.selectedAlert # Null
  /\ ~InSeq(alerts.selectedAlert, alerts.filteredAlerts)
  /\ alerts.filteredAlerts # <<>>

\* The menu items whose link carries the highlight classes.
C26_ActiveItems ==
  { i \in DOMAIN sidebar.navClasses :
      sidebar.navClasses[i] =
        "flex items-center w-full transition-colors bg-primary text-primary-foreground hover:bg-primary-dark" }

\* s begins with the characters of url.
C26_BeginsWith(s, url) == Len(s) >= Len(url) /\ SubSeq(s, 1, Len(url)) = url

\* C26: in the sidebar, at every current path at most one of the four menu
\* items is active: the "/" item only when the path is exactly "/", each
\* other item exactly when the path starts with its url; at each of the four
\* route urls exactly its own item is active.
C26_AtMostOneItemActive ==
  /\ Cardinality(C26_ActiveItems) <= 1
  /\ 1 \in C26_ActiveItems <=> sidebar.currentPath = <<"/">>
  /\ \A i \in 2..4 :
       i \in C26_ActiveItems <=> C26_BeginsWith(sidebar.currentPath, MenuUrls[i])
  /\ \A i \in 1..4 :
       sidebar.currentPath = MenuUrls[i] => C26_ActiveItems = {i}

\* A path below /alerts, at which the Alerts item alone is active.
C26_Witness ==
  /\ mounted = "AppSidebar"
  /\ Len(sidebar.currentPath) > Len(MenuUrls[3])
  /\ C26_BeginsWith(sidebar.currentPath, MenuUrls[3])
  /\ C26_ActiveItems = {3}

====
